---- MODULE Spec2Model ----
(***************************************************************************)
(* Todolist_Backend: the five route handlers of src/routes/main.js over    *)
(* the Task repository.  A request is received (Request), stays in flight  *)
(* while its handler awaits the store, and is answered by its handler      *)
(* (GetAll, Post, GetOne, Patch, Delete), which performs its single store  *)
(* operation atomically and writes its response.                           *)
(*                                                                         *)
(* JavaScript values are encoded as strings: a missing body key is         *)
(* Undefined, SQL NULL is Null, booleans are "true" / "false".  A missing  *)
(* id key is NoId.                                                         *)
(***************************************************************************)
EXTENDS Integers, FiniteSets, Sequences, TLC

VARIABLES store, nextId, reqs, sent, op, posted, gone

vars == <<store, nextId, reqs, sent, op, posted, gone>>

\* ---------------------------------------------------------------- bounds
\* The store hands out the ids 1..MaxId; POST is not accepted beyond that.
MaxId == 2

\* ---------------------------------------------------------------- values
Undefined == "undefined"
Null == "null"
NoId == 0

Titles == {"t1", "t2"}
Descriptions == {"d1"}
DueDates == {"due1"}
Booleans == {"true", "false"}

\* The clients of the sequential specification and of the concurrent one.
Clients == {"c1"}
ConcClients == {"c1", "c2"}
AllClients == {"c1", "c2"}

\* Ids a request path may carry (ids never assigned and ids deleted included).
PathIds == 1..MaxId

\* Request bodies after express.json(): every key is present or undefined.
Bodies ==
    [id : {NoId, 1},
     title : Titles \cup {Undefined},
     description : Descriptions \cup {Undefined},
     dueDate : DueDates \cup {Undefined},
     isFinished : Booleans \cup {Undefined}]

\* The bodies of the concurrent specification: one that creates, one that renames.
ConcBodies ==
    {[id |-> NoId, title |-> "t1", description |-> "d1",
      dueDate |-> Undefined, isFinished |-> Undefined],
     [id |-> NoId, title |-> "t2", description |-> Undefined,
      dueDate |-> Undefined, isFinished |-> Undefined]}

NoBody ==
    [id |-> NoId, title |-> Undefined, description |-> Undefined,
     dueDate |-> Undefined, isFinished |-> Undefined]

Methods == {"GET /", "POST /", "GET /:id", "PATCH /:id", "DELETE /:id"}

NoRequest == [method |-> "NONE", id |-> NoId, body |-> NoBody]

\* The store operation behind the last response to a client (history): the
\* route and path id it served, the id key of the request body, whether it
\* threw and what, whether it found the row, and which other clients'
\* exchanges were in flight when it ran.
NoOp ==
    [method |-> "NONE", id |-> NoId, bodyId |-> NoId, threw |-> FALSE,
     error |-> "", found |-> FALSE, overlap |-> {}]

\* The last successful POST whose task no PATCH or DELETE has been addressed
\* to since (history): the id it was given and the body it carried, less the
\* body's id key.
NoPost == [id |-> NoId, body |-> NoBody]

\* ---------------------------------------------------------------- store
\* A row of the task table.  rid is the row's identity in the table (the id
\* the store generated when it inserted the row); id is its id column.
IdsOf(s) == {t.id : t \in s}

RowsWithId(s, id) == {t \in s : t.id = id}

\* The task as the repository returns it: the columns of the row.
TaskOf(t) ==
    [id |-> t.id, title |-> t.title, description |-> t.description,
     dueDate |-> t.dueDate, isFinished |-> t.isFinished]

Threw(e) == [threw |-> TRUE, error |-> e]
Ok(v) == [threw |-> FALSE, value |-> v]

\* Failures any store operation may end with (connection, timeout).
StoreErrors == {"ConnectionError"}

RECURSIVE FindFrom(_, _)
FindFrom(s, i) ==
    IF i > MaxId THEN <<>>
    ELSE LET here == RowsWithId(s, i)
         IN (IF here = {} THEN <<>> ELSE <<TaskOf(CHOOSE t \in here : TRUE)>>)
            \o FindFrom(s, i + 1)

\* find(): all tasks, in the store's default order (by id).
Find(s) == FindFrom(s, 1)

\* findOne({where: {id}}): the task, or nothing (found is FALSE).
FindOne(s, id) ==
    IF RowsWithId(s, id) = {} THEN [found |-> FALSE, task |-> NoBody]
    ELSE [found |-> TRUE, task |-> TaskOf(CHOOSE t \in RowsWithId(s, id) : TRUE)]

\* create(fields): an in-memory record, nothing persisted.
Create(fields) == fields

\* save(record): inserts the record under a generated id, with the column
\* defaults (isFinished false, dueDate NULL); title and description are
\* required by the schema.
SaveThrows(record) ==
    record.title = Undefined \/ record.description = Undefined

SavedRow(n, record) ==
    [rid |-> n, id |-> n, title |-> record.title,
     description |-> record.description,
     dueDate |-> IF record.dueDate = Undefined THEN Null ELSE record.dueDate,
     isFinished |-> IF record.isFinished = Undefined THEN "false"
                    ELSE record.isFinished]

\* update({id}, fields): sets the defined fields on the rows matching id;
\* undefined fields are left alone.  Returns the affected-row count.
UpdatedRow(t, fields) ==
    [rid |-> t.rid,
     id |-> IF fields.id = NoId THEN t.id ELSE fields.id,
     title |-> IF fields.title = Undefined THEN t.title ELSE fields.title,
     description |-> IF fields.description = Undefined THEN t.description
                     ELSE fields.description,
     dueDate |-> IF fields.dueDate = Undefined THEN t.dueDate ELSE fields.dueDate,
     isFinished |-> IF fields.isFinished = Undefined THEN t.isFinished
                    ELSE fields.isFinished]

Update(s, id, fields) ==
    [store |-> {IF t.id = id THEN UpdatedRow(t, fields) ELSE t : t \in s},
     affected |-> Cardinality(RowsWithId(s, id))]

\* delete({id}): removes the rows matching id.  Returns the affected-row count.
DeleteRows(s, id) ==
    [store |-> {t \in s : t.id # id},
     affected |-> Cardinality(RowsWithId(s, id))]

\* ---------------------------------------------------------------- responses
Response(status, body) == [status |-> status, body |-> body]

\* Mutant: the catch block forgets status(500), so the error goes out as 200.
ErrorResponseStatus200(error) == <<Response(200, [error |-> error])>>

\* catch (error) { res.status(500).json(error) }
ErrorResponse(error) == <<Response(500, [error |-> error])>>

\* Mutant: GET / answers 404 when there is no task.
GetAllResponse404WhenEmpty(o) ==
    IF o.threw THEN <<Response(500, [error |-> o.error])>>
    ELSE IF o.value = <<>> THEN <<Response(404, [text |-> "Task not found"])>>
    ELSE <<Response(200, [list |-> o.value])>>

\* GET /: res.json(data)
GetAllResponse(o) ==
    IF o.threw THEN ErrorResponse(o.error)
    ELSE <<Response(200, [list |-> o.value])>>

\* Mutant: POST / also hands the body's isFinished to repository.create.
PostFieldsWithIsFinished(body) ==
    [id |-> NoId, title |-> body.title, description |-> body.description,
     dueDate |-> body.dueDate, isFinished |-> body.isFinished]

\* POST /: the fields the handler hands to repository.create
PostFields(body) ==
    [id |-> NoId, title |-> body.title, description |-> body.description,
     dueDate |-> body.dueDate, isFinished |-> Undefined]

\* POST /: res.status(200).json(task)
PostResponse(o) ==
    IF o.threw THEN ErrorResponse(o.error)
    ELSE <<Response(200, [task |-> o.value])>>

\* Mutant: GET /:id without the (!task) check.
GetOneResponseUnchecked(o) ==
    IF o.threw THEN <<Response(500, [error |-> o.error])>>
    ELSE <<Response(200, [task |-> o.value.task])>>

\* GET /:id: 404 when findOne gave nothing, else the task
GetOneResponse(o) ==
    IF o.threw THEN ErrorResponse(o.error)
    ELSE IF ~o.value.found THEN <<Response(404, [text |-> "Task not found"])>>
    ELSE <<Response(200, [task |-> o.value.task])>>

\* Mutant: PATCH /:id leaves isFinished out, as POST / does.
PatchFieldsWithoutIsFinished(body) ==
    [id |-> NoId, title |-> body.title, description |-> body.description,
     dueDate |-> body.dueDate, isFinished |-> Undefined]

\* Mutant: PATCH /:id hands the whole body, its id key included, to update.
PatchFieldsWithId(body) ==
    [id |-> body.id, title |-> body.title, description |-> body.description,
     dueDate |-> body.dueDate, isFinished |-> body.isFinished]

\* PATCH /:id: the fields the handler hands to repository.update
PatchFields(body) ==
    [id |-> NoId, title |-> body.title, description |-> body.description,
     dueDate |-> body.dueDate, isFinished |-> body.isFinished]

\* Mutant: PATCH /:id without the affected-count check.
PatchResponseUnchecked(o) ==
    IF o.threw THEN <<Response(500, [error |-> o.error])>>
    ELSE <<Response(200, [text |-> "Task updated successfully"])>>

\* PATCH /:id: 404 when result.affected === 0
PatchResponse(o) ==
    IF o.threw THEN ErrorResponse(o.error)
    ELSE IF o.value = 0 THEN <<Response(404, [text |-> "Task not found"])>>
    ELSE <<Response(200, [text |-> "Task updated successfully"])>>

\* Mutant: DELETE /:id without the affected-count check.
DeleteResponseUnchecked(o) ==
    IF o.threw THEN <<Response(500, [error |-> o.error])>>
    ELSE <<Response(200, [text |-> "Task deleted successfully"])>>

\* DELETE /:id: 404 when result.affected === 0
DeleteResponse(o) ==
    IF o.threw THEN ErrorResponse(o.error)
    ELSE IF o.value = 0 THEN <<Response(404, [text |-> "Task not found"])>>
    ELSE <<Response(200, [text |-> "Task deleted successfully"])>>

\* ---------------------------------------------------------------- actions
Init ==
    /\ store = {}
    /\ nextId = 1
    /\ reqs = [c \in AllClients |-> NoRequest]
    /\ sent = [c \in AllClients |-> <<>>]
    /\ op = [c \in AllClients |-> NoOp]
    /\ posted = NoPost
    /\ gone = {}

InFlight == {c \in AllClients : reqs[c].method # "NONE"}

\* The history of client c's finished exchange.
Done(c, id, o, found) ==
    op' = [op EXCEPT ![c] =
             [method |-> reqs[c].method, id |-> id, bodyId |-> reqs[c].body.id,
              threw |-> o.threw, error |-> IF o.threw THEN o.error ELSE "",
              found |-> found, overlap |-> InFlight \ {c}]]

\* The path id and the body a request to route m carries.
IdsFor(m) == IF m \in {"GET /", "POST /"} THEN {NoId} ELSE PathIds

BodiesFor(m, B) == IF m \in {"POST /", "PATCH /:id"} THEN B ELSE {NoBody}

\* express dispatches a request of client c to its route; the handler starts
\* and awaits its store operation.
Request(c, B) ==
    /\ reqs[c].method = "NONE"
    /\ \E m \in Methods :
          /\ m = "POST /" =>
                nextId + Cardinality({d \in AllClients : reqs[d].method = "POST /"})
                   <= MaxId
          /\ \E i \in IdsFor(m), b \in BodiesFor(m, B) :
                reqs' = [reqs EXCEPT ![c] = [method |-> m, id |-> i, body |-> b]]
    /\ sent' = [sent EXCEPT ![c] = <<>>]
    /\ op' = [d \in AllClients |->
                IF d = c THEN NoOp ELSE [op[d] EXCEPT !.overlap = @ \ {c}]]
    /\ UNCHANGED <<store, nextId, posted, gone>>

GetAll(c) ==
    /\ reqs[c].method = "GET /"
    /\ \E o \in {Ok(Find(store))} \cup {Threw(e) : e \in StoreErrors} :
          /\ sent' = [sent EXCEPT ![c] = GetAllResponse(o)]
          /\ Done(c, NoId, o, FALSE)
    /\ reqs' = [reqs EXCEPT ![c] = NoRequest]
    /\ UNCHANGED <<store, nextId, posted, gone>>

Post(c) ==
    /\ reqs[c].method = "POST /"
    /\ LET record == Create(PostFields(reqs[c].body))
           row == SavedRow(nextId, record)
       IN \/ /\ ~SaveThrows(record)
             /\ store' = store \cup {row}
             /\ nextId' = nextId + 1
             /\ sent' = [sent EXCEPT ![c] = PostResponse(Ok(TaskOf(row)))]
             /\ posted' = [id |-> row.id, body |-> [reqs[c].body EXCEPT !.id = NoId]]
             /\ gone' = {}
             /\ Done(c, row.id, Ok(row), FALSE)
          \/ /\ \E e \in IF SaveThrows(record) THEN {"NotNullViolation"}
                         ELSE StoreErrors :
                   /\ sent' = [sent EXCEPT ![c] = PostResponse(Threw(e))]
                   /\ Done(c, NoId, Threw(e), FALSE)
             /\ UNCHANGED <<store, nextId, posted, gone>>
    /\ reqs' = [reqs EXCEPT ![c] = NoRequest]

GetOne(c) ==
    /\ reqs[c].method = "GET /:id"
    /\ LET id == reqs[c].id
       IN \E o \in {Ok(FindOne(store, id))} \cup {Threw(e) : e \in StoreErrors} :
             /\ sent' = [sent EXCEPT ![c] = GetOneResponse(o)]
             /\ Done(c, id, o, id \in IdsOf(store))
    /\ reqs' = [reqs EXCEPT ![c] = NoRequest]
    /\ UNCHANGED <<store, nextId, posted, gone>>

Patch(c) ==
    /\ reqs[c].method = "PATCH /:id"
    /\ LET id == reqs[c].id
           result == Update(store, id, PatchFields(reqs[c].body))
       IN \/ /\ store' = result.store
             /\ sent' = [sent EXCEPT ![c] = PatchResponse(Ok(result.affected))]
             /\ Done(c, id, Ok(result.affected), id \in IdsOf(store))
          \/ /\ \E e \in StoreErrors :
                   /\ sent' = [sent EXCEPT ![c] = PatchResponse(Threw(e))]
                   /\ Done(c, id, Threw(e), id \in IdsOf(store))
             /\ UNCHANGED store
    /\ posted' = IF posted.id = reqs[c].id THEN NoPost ELSE posted
    /\ reqs' = [reqs EXCEPT ![c] = NoRequest]
    /\ UNCHANGED <<nextId, gone>>

Delete(c) ==
    /\ reqs[c].method = "DELETE /:id"
    /\ LET id == reqs[c].id
           result == DeleteRows(store, id)
       IN \/ /\ store' = result.store
             /\ sent' = [sent EXCEPT ![c] = DeleteResponse(Ok(result.affected))]
             /\ gone' = IF result.affected = 0 THEN gone ELSE gone \cup {id}
             /\ Done(c, id, Ok(result.affected), id \in IdsOf(store))
          \/ /\ \E e \in StoreErrors :
                   /\ sent' = [sent EXCEPT ![c] = DeleteResponse(Threw(e))]
                   /\ Done(c, id, Threw(e), id \in IdsOf(store))
             /\ UNCHANGED <<store, gone>>
    /\ posted' = IF posted.id = reqs[c].id THEN NoPost ELSE posted
    /\ reqs' = [reqs EXCEPT ![c] = NoRequest]
    /\ UNCHANGED nextId

Next ==
    \E c \in Clients :
       \/ Request(c, Bodies)
       \/ GetAll(c)
       \/ Post(c)
       \/ GetOne(c)
       \/ Patch(c)
       \/ Delete(c)

Spec == Init /\ [][Next]_vars

NextConc ==
    \E c \in ConcClients :
       \/ Request(c, ConcBodies)
       \/ GetAll(c)
       \/ Post(c)
       \/ GetOne(c)
       \/ Patch(c)
       \/ Delete(c)

SpecConc == Init /\ [][NextConc]_vars

\* ---------------------------------------------------------------- claims
\* The handler of client c's request to route m runs in this step.
Handled(c, m) == reqs[c].method = m /\ reqs'[c].method = "NONE"

\* ... and its store operation completes without an error.
Completed(c, m) == Handled(c, m) /\ ~op'[c].threw

Text(status, text) == <<Response(status, [text |-> text])>>

\* The task a POST of body b is to yield under id n.
PostedTask(n, b) ==
    [id |-> n, title |-> b.title, description |-> b.description,
     dueDate |-> IF b.dueDate = Undefined THEN Null ELSE b.dueDate,
     isFinished |-> "false"]

\* Row t with exactly the supplied fields of body b set.
Patched(t, b) ==
    [t EXCEPT !.title = IF b.title = Undefined THEN @ ELSE b.title,
              !.description = IF b.description = Undefined THEN @
                              ELSE b.description,
              !.dueDate = IF b.dueDate = Undefined THEN @ ELSE b.dueDate,
              !.isFinished = IF b.isFinished = Undefined THEN @
                             ELSE b.isFinished]

\* C1: DELETE /:id on an id that is not in the store responds 404 with the
\* body "The task was not found" and leaves the store unchanged.
C1_DeleteMissing ==
    [][\A c \in AllClients :
          (Completed(c, "DELETE /:id") /\ reqs[c].id \notin IdsOf(store)) =>
             /\ sent'[c] = Text(404, "The task was not found")
             /\ store' = store]_vars

\* C2: DELETE /:id on an id in the store removes exactly that task and
\* responds 200 "Task deleted successfully"; from then on, until a POST,
\* the id stays absent, every GET /:id for it responds 404 and every further
\* DELETE /:id for it responds 404.
C2_DeleteExisting ==
    [][\A c \in AllClients :
          /\ (Completed(c, "DELETE /:id") /\ reqs[c].id \in IdsOf(store)) =>
                /\ store' = {t \in store : t.id # reqs[c].id}
                /\ Cardinality(store') = Cardinality(store) - 1
                /\ sent'[c] = Text(200, "Task deleted successfully")
                /\ reqs[c].id \in gone'
          /\ (Completed(c, "GET /:id") /\ reqs[c].id \in gone) =>
                sent'[c] = Text(404, "Task not found")
          /\ (Completed(c, "DELETE /:id") /\ reqs[c].id \in gone) =>
                (Len(sent'[c]) = 1 /\ sent'[c][1].status = 404)
          /\ gone \cap IdsOf(store) = {}]_vars

C2_Witness ==
    \E c \in AllClients :
       /\ op[c].method = "DELETE /:id" /\ ~op[c].threw /\ ~op[c].found
       /\ op[c].id \in gone
       /\ Len(sent[c]) = 1 /\ sent[c][1].status = 404

\* C3: PATCH /:id on an id in the store sets exactly the supplied fields of
\* that task, leaves its other fields, its id and every other task
\* unchanged, and responds 200 "Task updated successfully".
C3_PatchExisting ==
    [][\A c \in AllClients :
          (Completed(c, "PATCH /:id") /\ reqs[c].id \in IdsOf(store)) =>
             /\ store' = {IF t.id = reqs[c].id THEN Patched(t, reqs[c].body)
                          ELSE t : t \in store}
             /\ sent'[c] = Text(200, "Task updated successfully")]_vars

C3_Witness ==
    \E c \in AllClients :
       /\ op[c].method = "PATCH /:id" /\ ~op[c].threw /\ op[c].found
       /\ sent[c] = Text(200, "Task updated successfully")
       /\ \E t \in store, u \in store :
             /\ t.id = op[c].id /\ u.id # op[c].id
             /\ t.title = "t2" /\ t.isFinished = "true" /\ t.dueDate = Null
             /\ u.title = "t1" /\ u.isFinished = "false"

\* C4: POST / stores a task built from the body's title, description and
\* dueDate only, under a new id assigned by the store, and responds 200 with
\* it; a GET /:id for that id, with no PATCH or DELETE for it in between,
\* responds 200 with that title, description and dueDate and isFinished false,
\* whatever isFinished the body carried.
C4_PostThenGet ==
    [][\A c \in AllClients :
          /\ Completed(c, "POST /") =>
                /\ nextId \notin IdsOf(store)
                /\ {TaskOf(t) : t \in store'} =
                      {TaskOf(t) : t \in store}
                         \cup {PostedTask(nextId, reqs[c].body)}
                /\ Cardinality(store') = Cardinality(store) + 1
                /\ sent'[c] =
                      <<Response(200, [task |-> PostedTask(nextId, reqs[c].body)])>>
          /\ (Completed(c, "GET /:id") /\ reqs[c].id = posted.id) =>
                sent'[c] =
                   <<Response(200, [task |-> PostedTask(posted.id, posted.body)])>>]_vars

C4_Witness ==
    \E c \in AllClients :
       /\ op[c].method = "GET /:id" /\ ~op[c].threw
       /\ op[c].id = posted.id
       /\ posted.body.isFinished = "true"
       /\ Len(sent[c]) = 1 /\ sent[c][1].status = 200
       /\ sent[c][1].body.task.isFinished = "false"

\* C5: no two tasks have the same id, and every task carries the id the store
\* gave it when it was created.
C5_IdUniqueImmutable ==
    /\ \A t \in store, u \in store : t.id = u.id => t = u
    /\ \A t \in store : t.id = t.rid

C5_Witness ==
    \E c \in AllClients :
       /\ op[c].method = "PATCH /:id" /\ ~op[c].threw /\ op[c].found
       /\ op[c].bodyId # NoId /\ op[c].bodyId # op[c].id
       /\ sent[c] = Text(200, "Task updated successfully")
       /\ Cardinality(store) = 2

\* C6: a handler whose store operation throws sends exactly one response,
\* 500 with the error as body, and leaves the store unchanged; a handler whose
\* store operation completes sends exactly one response, and it is not a 500.
C6_StoreErrorIs500 ==
    [][\A c \in AllClients, m \in Methods :
          Handled(c, m) =>
             /\ Len(sent'[c]) = 1
             /\ op'[c].threw <=> sent'[c][1].status = 500
             /\ op'[c].threw =>
                   /\ sent'[c][1].body = [error |-> op'[c].error]
                   /\ store' = store]_vars

C6_Witness ==
    \E c \in AllClients :
       /\ op[c].method = "PATCH /:id" /\ op[c].threw /\ op[c].found
       /\ sent[c] = <<Response(500, [error |-> "ConnectionError"])>>

\* C7: GET /:id responds 404 "Task not found" exactly when no task has that id
\* at the lookup, otherwise 200 with the stored task of that id; the store is
\* unchanged either way.
C7_GetOne ==
    [][\A c \in AllClients :
          Handled(c, "GET /:id") =>
             /\ Len(sent'[c]) = 1
             /\ sent'[c][1].status = 404 <=>
                   (~op'[c].threw /\ reqs[c].id \notin IdsOf(store))
             /\ sent'[c][1].status = 404 =>
                   sent'[c] = Text(404, "Task not found")
             /\ (~op'[c].threw /\ reqs[c].id \in IdsOf(store)) =>
                   \E t \in store :
                      /\ t.id = reqs[c].id
                      /\ sent'[c] = <<Response(200, [task |-> TaskOf(t)])>>
             /\ store' = store]_vars

C7_Witness ==
    \E c \in AllClients :
       /\ op[c].method = "GET /:id" /\ ~op[c].threw /\ ~op[c].found
       /\ sent[c] = Text(404, "Task not found")
       /\ store # {}

\* C8: PATCH /:id on an id that is not in the store responds 404 "Task not
\* found" and leaves the store unchanged.
C8_PatchMissing ==
    [][\A c \in AllClients :
          (Completed(c, "PATCH /:id") /\ reqs[c].id \notin IdsOf(store)) =>
             /\ sent'[c] = Text(404, "Task not found")
             /\ store' = store]_vars

C8_Witness ==
    \E c \in AllClients :
       /\ op[c].method = "PATCH /:id" /\ ~op[c].threw /\ ~op[c].found
       /\ sent[c] = Text(404, "Task not found")
       /\ store # {}

\* C9: GET / responds 200 with an array holding each task of the store once,
\* the empty array when the store is empty, and leaves the store unchanged.
C9_GetAll ==
    [][\A c \in AllClients :
          Completed(c, "GET /") =>
             /\ Len(sent'[c]) = 1
             /\ sent'[c][1].status = 200
             /\ LET list == sent'[c][1].body.list
                IN /\ {list[i] : i \in 1..Len(list)} = {TaskOf(t) : t \in store}
                   /\ Len(list) = Cardinality(store)
             /\ store' = store]_vars

C9_Witness ==
    \E c \in AllClients :
       /\ op[c].method = "GET /" /\ ~op[c].threw
       /\ Len(sent[c]) = 1 /\ sent[c][1].status = 200
       /\ Len(sent[c][1].body.list) = 2

\* C10: a PATCH /:id and a DELETE /:id for the same id in the store, in flight
\* at the same time, end as one of the two serial orders does: PATCH 200 then
\* DELETE 200, or DELETE 200 then PATCH 404, with the task absent; and two
\* DELETEs of the same id never both respond 200.
Status(c) == IF Len(sent[c]) = 1 THEN sent[c][1].status ELSE 0

Finished(c, m) == op[c].method = m /\ ~op[c].threw

C10_PatchDeleteRace ==
    \A p \in AllClients, d \in AllClients :
       /\ (/\ p # d
           /\ Finished(p, "PATCH /:id") /\ Finished(d, "DELETE /:id")
           /\ op[p].id = op[d].id) =>
             /\ (d \in op[p].overlap /\ op[p].found) =>
                   /\ Status(p) = 200 /\ Status(d) = 200
                   /\ op[p].id \notin IdsOf(store)
             /\ (p \in op[d].overlap /\ op[d].found) =>
                   /\ Status(d) = 200 /\ Status(p) = 404
                   /\ op[p].id \notin IdsOf(store)
       /\ (/\ p # d
           /\ Finished(p, "DELETE /:id") /\ Finished(d, "DELETE /:id")
           /\ op[p].id = op[d].id) =>
             ~(Status(p) = 200 /\ Status(d) = 200)

C10_Witness ==
    \E p \in AllClients, d \in AllClients :
       /\ p # d
       /\ Finished(p, "PATCH /:id") /\ Finished(d, "DELETE /:id")
       /\ op[p].id = op[d].id
       /\ p \in op[d].overlap /\ op[d].found
       /\ Status(d) = 200 /\ Status(p) = 404

====
